---- MODULE Spec2Model ----
(***************************************************************************)
(* A model of the telescopes recommender's EC2 VM registry                 *)
(* (Ec2VmRegistry.findVmsWithCpuUnits and the two spot-price sources it    *)
(* uses) and of the HTTP handler RouteHandler.recommendClusterSetup.       *)
(*                                                                         *)
(* One registry request is followed from its call to its return.  Every    *)
(* call to a collaborator (product info, EC2, Prometheus) is a step whose   *)
(* answer is chosen from a small set; the Prometheus query alone is split   *)
(* into its issue and its return, so that "in flight" is a state.           *)
(***************************************************************************)
EXTENDS Integers, Sequences, FiniteSets, TLC

\* ---------------------------------------------------------------- bounds
MaxCpuUnits == 2   \* longest list of requested cpu units
MaxZones == 2      \* longest list of requested zones
MaxHist == 2       \* most entries of one spot price history answer
MaxTargetVCPU == 4    \* largest vCPU target of a recommendation request
MaxTargetMemory == 3  \* largest memory target of a recommendation request
MaxNodes == 3         \* largest node count bound of a recommendation request

\* ------------------------------------------------------------ helpers
\* A nil error.  A nil slice is the empty sequence and a nil map the empty function,
\* which is what len, range and lookup make of them.
Nil == "nil"

Range(f) == {f[i] : i \in DOMAIN f}

SeqsUpTo(S, n) == UNION {[1..k -> S] : k \in 0..n}

RECURSIVE Gcd(_, _)
Gcd(a, b) == IF b = 0 THEN a ELSE Gcd(b, a % b)

\* A float64 price, kept exact as a fraction in lowest terms.
Rat(n, d) == LET g == Gcd(n, d) IN <<n \div g, d \div g>>

\* strconv.ParseFloat on the strings the collaborators answer with.  The numeric
\* strings are small integers, which float32 and float64 both hold exactly.
NumericStrings == <<"1", "2", "3", "4", "5">>

ParseFloat(s) ==
    IF \E i \in DOMAIN NumericStrings : NumericStrings[i] = s
    THEN [ok |-> TRUE, val |-> CHOOSE i \in DOMAIN NumericStrings : NumericStrings[i] = s]
    ELSE [ok |-> FALSE, val |-> 0]

\* ------------------------------------------------- the collaborators' data
Regions == {"r1", "r0"}          \* r0: the provider has no offerings there
CpuValues == {1, 2}
ZoneNames == {"a", "b"}
ZoneStates == {"available", "impaired"}
TypeNames == {"t1", "t2"}
SpotPriceStrings == {"1", "3", "x"}
PromValueStrings == {"5", "x"}
QueryErrors == {"context deadline exceeded"}

ErrProductInfo == "productinfo: request failed"
ErrDescribeAZ == "ec2: DescribeAvailabilityZones failed"
ErrSpotHistory == "ec2: DescribeSpotPriceHistory failed"
ErrMetricEmpty == "'aws_spot_current_price' metric is empty"
ErrParseFloat == "strconv.ParseFloat: invalid syntax"

\* What the product info holds for a region.
Ec2Catalog(r) ==
    IF r = "r1"
    THEN << [Type |-> "t1", OnDemandPrice |-> 10, Cpus |-> 1, Mem |-> 2, Gpus |-> 0],
            [Type |-> "t2", OnDemandPrice |-> 20, Cpus |-> 2, Mem |-> 4, Gpus |-> 1] >>
    ELSE << >>

\* productInfo.GetVmsWithCpu when it succeeds.
GetVmsWithCpu(r, cpu) == SelectSeq(Ec2Catalog(r), LAMBDA v : v.Cpus = cpu)

\* A zone list DescribeAvailabilityZones may answer with.
AzAnswers ==
    {<< [ZoneName |-> "a", State |-> s1], [ZoneName |-> "b", State |-> s2] >> :
        s1 \in ZoneStates, s2 \in ZoneStates}

\* An answer of prometheus.Query: an error, or an instant vector of 0 or 1 samples.
QueryAnswers ==
    {[err |-> e, vec |-> << >>] : e \in QueryErrors}
        \cup {[err |-> Nil, vec |-> v] : v \in SeqsUpTo(PromValueStrings, 1)}

\* A spot price history DescribeSpotPriceHistory may answer with.
PriceEntries ==
    [InstanceType : TypeNames, AvailabilityZone : ZoneNames, SpotPrice : SpotPriceStrings]

\* The place of an entry in a fixed order of the entries.
EntryRank(e) ==
    (IF e.InstanceType = "t1" THEN 0 ELSE 6)
    + (IF e.AvailabilityZone = "a" THEN 0 ELSE 3)
    + (CASE e.SpotPrice = "1" -> 0 [] e.SpotPrice = "3" -> 1 [] OTHER -> 2)

\* The answers are taken in one order of their entries: getCurrentSpotPrices sums
\* and counts the entries of a type, and neither depends on their order.
Histories ==
    {h \in SeqsUpTo(PriceEntries, MaxHist) :
        \A i \in DOMAIN h : \A j \in DOMAIN h :
            i < j => EntryRank(h[i]) <= EntryRank(h[j])}

\* The answers to a call for the instance types its in region r: the entries are
\* of types the region offers and, unless its is empty (no filter), of types in its.
HistoriesFor(r, its) ==
    LET offered == {Ec2Catalog(r)[i].Type : i \in DOMAIN Ec2Catalog(r)}
        wanted == IF Len(its) = 0 THEN offered
                  ELSE offered \cap {its[i] : i \in DOMAIN its}
    IN {h \in Histories : \A i \in DOMAIN h : h[i].InstanceType \in wanted}

\* ------------------------------------------------------------- the state
\* The registry: Ec2VmRegistry.findVmsWithCpuUnits
VARIABLES
    region, reqZones, cpuUnits,  \* the arguments of findVmsWithCpuUnits
    prometheus,                  \* e.prometheus != nil
    pc,                          \* where the request is
    cpuIdx,                      \* position of the loop over cpuUnits
    vms, instanceTypes, zones,   \* locals of findVmsWithCpuUnits
    azs,                         \* the answer of DescribeAvailabilityZones
    promIdx, promPrices,         \* loop position and map of getSpotPriceAvgsFromPrometheus
    inflight,                    \* the Prometheus query that was sent and has not returned
    promErr,                     \* err of getSpotPriceAvgsFromPrometheus
    pricesParsed, avgSpotPrices, \* locals of findVmsWithCpuUnits
    history,                     \* the answer of DescribeSpotPriceHistory
    retVms, retErr,              \* what findVmsWithCpuUnits returns
    calls,                       \* the calls made to the collaborators, in order
    queryAnswers,                \* the answers of the Prometheus queries, in order
    cancelled,                   \* the caller gave the request up
    catalogErr, azErr, directErr \* err of GetVmsWithCpu, of DescribeAvailabilityZones
                                 \* and of getCurrentSpotPrices

regVars ==
    << region, reqZones, cpuUnits, prometheus, pc, cpuIdx, vms, instanceTypes, zones,
       azs, promIdx, promPrices, inflight, promErr, pricesParsed, avgSpotPrices,
       history, retVms, retErr, calls, queryAnswers, cancelled, catalogErr, azErr,
       directErr >>

\* The handler: RouteHandler.recommendClusterSetup
VARIABLES
    provider, pathRegion,  \* c.Param(providerParam), c.Param(regionParam)
    body,                  \* the request body
    hpc,                   \* where the handler is
    reqWr,                 \* the bound request
    engineCalls,           \* the calls of engine.RecommendCluster, in order
    engineResult,          \* what engine.RecommendCluster returned, in order
    responses              \* the responses written with c.JSON, in order

apiVars == << provider, pathRegion, body, hpc, reqWr, engineCalls, engineResult, responses >>

\* The engine: Engine.RecommendCluster
VARIABLES
    engReq,       \* the RecommendationRequest
    candidates,   \* the eligible instance types, after the Candidate Selector
    epc,          \* where the engine is
    survivors,    \* the instance types the sizing pass keeps
    workingSet,   \* the instance types of the diversification step
    allocation,   \* node count per instance type of the working set
    onDemand,     \* how many of a type's nodes are on-demand
    engResponse,  \* the RecommendationResponse
    engErr        \* the failure the engine reports

engVars ==
    << engReq, candidates, epc, survivors, workingSet, allocation, onDemand,
       engResponse, engErr >>

EmptyMap == [t \in {} |-> <<0, 1>>]

\* ------------------------------------------------ findVmsWithCpuUnits, 61-132
\* The VirtualMachine built from one product info entry.
NewVirtualMachine(ec2vm) ==
    [Type |-> ec2vm.Type, OnDemandPrice |-> ec2vm.OnDemandPrice, AvgPrice |-> Rat(99, 1),
     Cpus |-> ec2vm.Cpus, Mem |-> ec2vm.Mem, Gpus |-> ec2vm.Gpus]

\* CatalogStep, were the VMs read so far returned along with the error.
CatalogStepPartial(vs, answer) ==
    IF answer.err # Nil
    THEN [returns |-> TRUE, vms |-> vs, err |-> answer.err]
    ELSE [returns |-> FALSE,
          vms |-> vs \o [i \in DOMAIN answer.vms |-> NewVirtualMachine(answer.vms[i])],
          err |-> Nil]

\* One turn of the loop over cpuUnits, given the answer of GetVmsWithCpu.
CatalogStep(vs, answer) ==
    IF answer.err # Nil
    THEN [returns |-> TRUE, vms |-> << >>, err |-> answer.err]
    ELSE [returns |-> FALSE,
          vms |-> vs \o [i \in DOMAIN answer.vms |-> NewVirtualMachine(answer.vms[i])],
          err |-> Nil]

\* The zone list after discovery, given the answer of DescribeAvailabilityZones.
RECURSIVE AvailableZones(_)
AvailableZones(list) ==
    IF list = << >> THEN << >>
    ELSE IF Head(list).State = "available"
         THEN << Head(list).ZoneName >> \o AvailableZones(Tail(list))
         ELSE AvailableZones(Tail(list))

\* DiscoverStep, were a failed discovery logged and the request carried on.
DiscoverStepIgnoreError(zs, answer) ==
    IF answer.err # Nil
    THEN [returns |-> FALSE, zones |-> zs, err |-> Nil]
    ELSE [returns |-> FALSE, zones |-> zs \o AvailableZones(answer.azs), err |-> Nil]

\* DiscoverStep, were every zone of the answer taken, whatever its state.
DiscoverStepAnyState(zs, answer) ==
    IF answer.err # Nil
    THEN [returns |-> TRUE, zones |-> zs, err |-> answer.err]
    ELSE [returns |-> FALSE,
          zones |-> zs \o [i \in DOMAIN answer.azs |-> answer.azs[i].ZoneName],
          err |-> Nil]

DiscoverStep(zs, answer) ==
    IF answer.err # Nil
    THEN [returns |-> TRUE, zones |-> zs, err |-> answer.err]
    ELSE [returns |-> FALSE, zones |-> zs \o AvailableZones(answer.azs), err |-> Nil]

\* PrometheusOutcome, were the error of the attempt returned to the caller.
PrometheusOutcomeSurfaced(err, zoneAvgSpotPrices) ==
    IF err # Nil
    THEN [pricesParsed |-> FALSE, avgSpotPrices |-> EmptyMap, ret |-> err]
    ELSE [pricesParsed |-> TRUE, avgSpotPrices |-> zoneAvgSpotPrices, ret |-> Nil]

\* PrometheusOutcome, were the map of a successful attempt not kept.
PrometheusOutcomeDropMap(err, zoneAvgSpotPrices) ==
    IF err # Nil
    THEN [pricesParsed |-> FALSE, avgSpotPrices |-> EmptyMap, ret |-> Nil]
    ELSE [pricesParsed |-> TRUE, avgSpotPrices |-> EmptyMap, ret |-> Nil]

\* What findVmsWithCpuUnits does with the outcome of the Prometheus attempt:
\* an error is logged and nothing of it is returned.
PrometheusOutcome(err, zoneAvgSpotPrices) ==
    IF err # Nil
    THEN [pricesParsed |-> FALSE, avgSpotPrices |-> EmptyMap, ret |-> Nil]
    ELSE [pricesParsed |-> TRUE, avgSpotPrices |-> zoneAvgSpotPrices, ret |-> Nil]

\* NeedsDirect, were the direct API called whatever the Prometheus attempt gave.
NeedsDirectAlways(prom, parsed) == TRUE

NeedsDirect(prom, parsed) == ~prom \/ ~parsed

\* AssignPrices, were a type without a price given the zero price.
AssignPricesZeroDefault(vs, prices) ==
    [i \in DOMAIN vs |->
        IF vs[i].Type \in DOMAIN prices
        THEN [vs[i] EXCEPT !.AvgPrice = prices[vs[i].Type]]
        ELSE [vs[i] EXCEPT !.AvgPrice = Rat(0, 1)]]

\* AssignPrices, were a VM whose type has no price left out of the list.
AssignPricesDropUnpriced(vs, prices) ==
    LET priced == SelectSeq(vs, LAMBDA v : v.Type \in DOMAIN prices)
    IN [i \in DOMAIN priced |-> [priced[i] EXCEPT !.AvgPrice = prices[priced[i].Type]]]

AssignPrices(vs, prices) ==
    [i \in DOMAIN vs |->
        IF vs[i].Type \in DOMAIN prices
        THEN [vs[i] EXCEPT !.AvgPrice = prices[vs[i].Type]]
        ELSE vs[i]]

\* ------------------------------------- getSpotPriceAvgsFromPrometheus, 134-160
\* The context each query is sent with.
QueryContext == [kind |-> "Background", deadline |-> Nil]

\* result.String() of an instant vector: empty exactly for the empty vector.
VectorString(vec) == IF Len(vec) = 0 THEN "" ELSE vec[1]

\* QueryReturn, were an empty answer skipped and the loop carried on.
QueryReturnSkipEmpty(answer, it, prices) ==
    IF answer.err # Nil THEN [err |-> answer.err, prices |-> EmptyMap]
    ELSE IF Len(answer.vec) = 0 THEN [err |-> Nil, prices |-> prices]
    ELSE LET p == ParseFloat(answer.vec[1])
         IN IF ~p.ok THEN [err |-> ErrParseFloat, prices |-> EmptyMap]
            ELSE [err |-> Nil,
                  prices |-> [t \in DOMAIN prices \cup {it} |->
                                 IF t = it THEN Rat(p.val, 1) ELSE prices[t]]]

\* QueryReturn, were a value that does not parse skipped and the loop carried on.
QueryReturnSkipUnparsable(answer, it, prices) ==
    IF answer.err # Nil THEN [err |-> answer.err, prices |-> EmptyMap]
    ELSE IF VectorString(answer.vec) = "" THEN [err |-> ErrMetricEmpty, prices |-> EmptyMap]
    ELSE LET p == ParseFloat(answer.vec[1])
         IN IF ~p.ok THEN [err |-> Nil, prices |-> prices]
            ELSE [err |-> Nil,
                  prices |-> [t \in DOMAIN prices \cup {it} |->
                                 IF t = it THEN Rat(p.val, 1) ELSE prices[t]]]

\* One turn of the loop over instanceTypes, given the answer of the query.
QueryReturn(answer, it, prices) ==
    IF answer.err # Nil THEN [err |-> answer.err, prices |-> EmptyMap]
    ELSE IF VectorString(answer.vec) = "" THEN [err |-> ErrMetricEmpty, prices |-> EmptyMap]
    ELSE IF Len(answer.vec) > 0
         THEN LET p == ParseFloat(answer.vec[1])
              IN IF ~p.ok THEN [err |-> ErrParseFloat, prices |-> EmptyMap]
                 ELSE [err |-> Nil,
                       prices |-> [t \in DOMAIN prices \cup {it} |->
                                      IF t = it THEN Rat(p.val, 1) ELSE prices[t]]]
         ELSE [err |-> ErrMetricEmpty, prices |-> EmptyMap]

\* ------------------------------------------------ getCurrentSpotPrices, 171-220
\* The number of positions of the zone list that name the zone az.
ZoneHits(zs, az) == Cardinality({i \in DOMAIN zs : zs[i] = az})

\* spotPrices[t] after the loop over the history.
RECURSIVE SpotPricesOf(_, _, _)
SpotPricesOf(hist, zs, t) ==
    IF hist = << >> THEN << >>
    ELSE LET e == Head(hist)
             hits == IF e.InstanceType = t THEN ZoneHits(zs, e.AvailabilityZone) ELSE 0
         IN [i \in 1..hits |->
                [AZ |-> e.AvailabilityZone, Price |-> ParseFloat(e.SpotPrice).val]]
            \o SpotPricesOf(Tail(hist), zs, t)

RECURSIVE SumPrice(_)
SumPrice(prices) == IF prices = << >> THEN 0 ELSE Head(prices).Price + SumPrice(Tail(prices))

\* The instance types the second loop keeps.
KeptTypes(hist, zs) ==
    {t \in TypeNames :
        LET prices == SpotPricesOf(hist, zs, t)
        IN Len(prices) > 0 /\ Len(prices) = Len(zs)}

ZoneAvgSpotPrices(hist, zs) ==
    [t \in KeptTypes(hist, zs) |-> Rat(SumPrice(SpotPricesOf(hist, zs, t)), Len(zs))]

CurrentSpotPrices(answer, zs) ==
    IF answer.err # Nil THEN [err |-> answer.err, prices |-> EmptyMap]
    ELSE IF \E i \in DOMAIN answer.hist : ~ParseFloat(answer.hist[i].SpotPrice).ok
    THEN [err |-> ErrParseFloat, prices |-> EmptyMap]
    ELSE [err |-> Nil, prices |-> ZoneAvgSpotPrices(answer.hist, zs)]

\* ------------------------------------------------------------ the request
RegArguments ==
    /\ region \in Regions
    /\ reqZones \in SeqsUpTo(ZoneNames, MaxZones)
    /\ cpuUnits \in SeqsUpTo(CpuValues, MaxCpuUnits)
    /\ prometheus \in BOOLEAN

RegLocals ==
    /\ pc = "catalog"
    /\ cpuIdx = 1
    /\ vms = << >>
    /\ instanceTypes = << >>
    /\ zones = << >>
    /\ azs = << >>
    /\ promIdx = 1
    /\ promPrices = EmptyMap
    /\ inflight = << >>
    /\ promErr = Nil
    /\ pricesParsed = FALSE
    /\ avgSpotPrices = EmptyMap
    /\ history = << >>
    /\ retVms = << >>
    /\ retErr = Nil
    /\ calls = << >>
    /\ queryAnswers = << >>
    /\ cancelled = FALSE
    /\ catalogErr = Nil
    /\ azErr = Nil
    /\ directErr = Nil

Return(v, e) == pc' = "done" /\ retVms' = v /\ retErr' = e

\* lines 64-68: one product info lookup
LookupCatalog ==
    /\ pc = "catalog"
    /\ cpuIdx <= Len(cpuUnits)
    /\ \E answer \in {[err |-> ErrProductInfo, vms |-> << >>],
                      [err |-> Nil, vms |-> GetVmsWithCpu(region, cpuUnits[cpuIdx])]} :
        LET r == CatalogStep(vms, answer)
        IN /\ catalogErr' = answer.err
           /\ calls' = Append(calls, [op |-> "GetVmsWithCpu", cpu |-> cpuUnits[cpuIdx],
                                       idx |-> cpuIdx])
           /\ IF r.returns
              THEN Return(r.vms, r.err) /\ UNCHANGED << vms, cpuIdx >>
              ELSE /\ vms' = r.vms
                   /\ cpuIdx' = cpuIdx + 1
                   /\ UNCHANGED << pc, retVms, retErr >>
    /\ UNCHANGED << region, reqZones, cpuUnits, prometheus, instanceTypes, zones, azs,
                    promIdx, promPrices, inflight, promErr, pricesParsed, avgSpotPrices,
                    history, queryAnswers, cancelled,
                    azErr, directErr >>
    /\ UNCHANGED << apiVars, engVars >>

\* lines 82-90: the loop over cpuUnits is over
CollectInstanceTypes ==
    /\ pc = "catalog"
    /\ cpuIdx > Len(cpuUnits)
    /\ instanceTypes' = [i \in DOMAIN vms |-> vms[i].Type]
    /\ zones' = IF Len(reqZones) = 0 THEN << >> ELSE reqZones
    /\ pc' = IF Len(zones') = 0 THEN "discover" ELSE "pricing"
    /\ UNCHANGED << region, reqZones, cpuUnits, prometheus, cpuIdx, vms, azs, promIdx,
                    promPrices, inflight, promErr, pricesParsed, avgSpotPrices, history,
                    retVms, retErr, calls, queryAnswers, cancelled,
                    catalogErr, azErr, directErr >>
    /\ UNCHANGED << apiVars, engVars >>

\* lines 91-100
DescribeAvailabilityZones ==
    /\ pc = "discover"
    /\ \E answer \in {[err |-> ErrDescribeAZ, azs |-> << >>]}
                        \cup {[err |-> Nil, azs |-> a] : a \in AzAnswers} :
        LET r == DiscoverStep(zones, answer)
        IN /\ calls' = Append(calls, [op |-> "DescribeAvailabilityZones"])
           /\ azs' = answer.azs
           /\ azErr' = answer.err
           /\ IF r.returns
              THEN Return(<< >>, r.err) /\ UNCHANGED zones
              ELSE zones' = r.zones /\ pc' = "pricing" /\ UNCHANGED << retVms, retErr >>
    /\ UNCHANGED << region, reqZones, cpuUnits, prometheus, cpuIdx, vms, instanceTypes,
                    promIdx, promPrices, inflight, promErr, pricesParsed, avgSpotPrices,
                    history, queryAnswers, cancelled,
                    catalogErr, directErr >>
    /\ UNCHANGED << apiVars, engVars >>

\* lines 103-105 and 134-136
StartPricing ==
    /\ pc = "pricing"
    /\ pc' = IF prometheus THEN "promLoop" ELSE "direct"
    /\ UNCHANGED << region, reqZones, cpuUnits, prometheus, cpuIdx, vms, instanceTypes,
                    zones, azs, promIdx, promPrices, inflight, promErr, pricesParsed,
                    avgSpotPrices, history, retVms, retErr, calls, queryAnswers,
                    cancelled,
                    catalogErr, azErr, directErr >>
    /\ UNCHANGED << apiVars, engVars >>

\* lines 137-140: the query for the next instance type is sent
IssueQuery ==
    /\ pc = "promLoop"
    /\ promIdx <= Len(instanceTypes)
    /\ inflight = << >>
    /\ inflight' = Append(inflight, [region |-> region, it |-> instanceTypes[promIdx],
                                      zones |-> zones, ctx |-> QueryContext])
    /\ calls' = Append(calls, [op |-> "Query", it |-> instanceTypes[promIdx],
                               zones |-> zones])
    /\ pc' = "promWait"
    /\ UNCHANGED << region, reqZones, cpuUnits, prometheus, cpuIdx, vms, instanceTypes,
                    zones, azs, promIdx, promPrices, promErr, pricesParsed, avgSpotPrices,
                    history, retVms, retErr, queryAnswers, cancelled,
                    catalogErr, azErr, directErr >>
    /\ UNCHANGED << apiVars, engVars >>

\* What follows the Prometheus attempt in findVmsWithCpuUnits (lines 106-131), up to
\* the call of the direct API or the return.
AfterPrometheus(err, prices) ==
    LET o == PrometheusOutcome(err, prices)
    IN /\ promErr' = err
       /\ pricesParsed' = o.pricesParsed
       /\ avgSpotPrices' = o.avgSpotPrices
       /\ IF o.ret # Nil THEN Return(<< >>, o.ret)
          ELSE IF NeedsDirect(prometheus, o.pricesParsed)
          THEN pc' = "direct" /\ UNCHANGED << retVms, retErr >>
          ELSE Return(AssignPrices(vms, o.avgSpotPrices), Nil)

\* lines 140-157: the query returns
QueryAnswered ==
    /\ pc = "promWait"
    /\ \E answer \in QueryAnswers :
        LET r == QueryReturn(answer, inflight[1].it, promPrices)
        IN /\ queryAnswers' = Append(queryAnswers, answer)
           /\ inflight' = Tail(inflight)
           /\ IF r.err # Nil
              THEN AfterPrometheus(r.err, r.prices) /\ UNCHANGED << promIdx, promPrices >>
              ELSE /\ promPrices' = r.prices
                   /\ promIdx' = promIdx + 1
                   /\ pc' = "promLoop"
                   /\ UNCHANGED << promErr, pricesParsed, avgSpotPrices, retVms, retErr >>
    /\ UNCHANGED << region, reqZones, cpuUnits, prometheus, cpuIdx, vms, instanceTypes,
                    zones, azs, history, calls, cancelled,
                    catalogErr, azErr, directErr >>
    /\ UNCHANGED << apiVars, engVars >>

\* line 159: every instance type was queried
PrometheusDone ==
    /\ pc = "promLoop"
    /\ promIdx > Len(instanceTypes)
    /\ AfterPrometheus(Nil, promPrices)
    /\ UNCHANGED << region, reqZones, cpuUnits, prometheus, cpuIdx, vms, instanceTypes,
                    zones, azs, promIdx, promPrices, inflight, history, calls,
                    queryAnswers, cancelled,
                    catalogErr, azErr, directErr >>
    /\ UNCHANGED << apiVars, engVars >>

\* lines 115-131 with 171-220
GetCurrentSpotPrices ==
    /\ pc = "direct"
    /\ \E answer \in {[err |-> ErrSpotHistory, hist |-> << >>]}
                        \cup {[err |-> Nil, hist |-> h] :
                                h \in HistoriesFor(region, instanceTypes)} :
        LET r == CurrentSpotPrices(answer, zones)
        IN /\ calls' = Append(calls, [op |-> "DescribeSpotPriceHistory",
                                       instanceTypes |-> instanceTypes])
           /\ history' = answer.hist
           /\ directErr' = r.err
           /\ IF r.err # Nil
              THEN Return(<< >>, r.err) /\ UNCHANGED avgSpotPrices
              ELSE /\ avgSpotPrices' = r.prices
                   /\ Return(AssignPrices(vms, r.prices), Nil)
    /\ UNCHANGED << region, reqZones, cpuUnits, prometheus, cpuIdx, vms, instanceTypes,
                    zones, azs, promIdx, promPrices, inflight, promErr, pricesParsed,
                    queryAnswers, cancelled,
                    catalogErr, azErr >>
    /\ UNCHANGED << apiVars, engVars >>

\* The caller gives the request up while a query is in flight.  Nothing of the
\* registry reads it: the query was sent with context.Background().
CancelRequest ==
    /\ pc = "promWait"
    /\ ~cancelled
    /\ cancelled' = TRUE
    /\ UNCHANGED << region, reqZones, cpuUnits, prometheus, pc, cpuIdx, vms, instanceTypes,
                    zones, azs, promIdx, promPrices, inflight, promErr, pricesParsed,
                    avgSpotPrices, history, retVms, retErr, calls, queryAnswers,
                    catalogErr, azErr, directErr >>
    /\ UNCHANGED << apiVars, engVars >>

Next ==
    \/ LookupCatalog
    \/ CollectInstanceTypes
    \/ DescribeAvailabilityZones
    \/ StartPricing
    \/ IssueQuery
    \/ QueryAnswered
    \/ PrometheusDone
    \/ GetCurrentSpotPrices

\* --------------------------------- RouteHandler.recommendClusterSetup, 101-124
StatusBadRequest == 400
StatusInternalServerError == 500
StatusOK == 200

Providers == {"ec2", "gce"}
Bodies == {"", "{", "{sumCpu:1}", "{sumCpu:2}", "{sumCpu:3}", "{sumCpu:4}"}
EngineErrors == {"no vms found", "could not get vm registry"}
ZeroReq == [SumCpu |-> 0]
ZeroResponse == [Provider |-> "", NodePools |-> 0]

\* c.BindJSON: the body decoded into the request, or the decoder's error.
BindJSON(b) ==
    CASE b = "{sumCpu:1}" -> [err |-> Nil, req |-> [SumCpu |-> 1]]
      [] b = "{sumCpu:2}" -> [err |-> Nil, req |-> [SumCpu |-> 2]]
      [] b = "{sumCpu:3}" -> [err |-> Nil, req |-> [SumCpu |-> 3]]
      [] b = "{sumCpu:4}" -> [err |-> Nil, req |-> [SumCpu |-> 4]]
      [] b = "" -> [err |-> "EOF", req |-> ZeroReq]
      [] OTHER -> [err |-> "unexpected end of JSON input", req |-> ZeroReq]

\* What engine.RecommendCluster may answer.
EngineAnswers(p) ==
    {[err |-> e, response |-> ZeroResponse] : e \in EngineErrors}
        \cup {[err |-> Nil, response |-> [Provider |-> p, NodePools |-> n]] : n \in {1, 2}}

\* OnBindError, were the return after the 400 answer missing.
OnBindErrorNoReturn(err) ==
    [response |-> [status |-> StatusBadRequest,
                   body |-> [code |-> "bad_params",
                             message |-> "invalid zone(s) or network performance",
                             cause |-> err]],
     returns |-> FALSE]

\* lines 109-117: the branch taken when the body does not bind
OnBindError(err) ==
    [response |-> [status |-> StatusBadRequest,
                   body |-> [code |-> "bad_params",
                             message |-> "invalid zone(s) or network performance",
                             cause |-> err]],
     returns |-> TRUE]

\* lines 119-123
EngineResponse(answer) ==
    IF answer.err # Nil
    THEN [status |-> StatusInternalServerError,
          body |-> [status |-> StatusInternalServerError, message |-> answer.err]]
    ELSE [status |-> StatusOK, body |-> answer.response]

ApiArguments ==
    /\ provider \in Providers
    /\ pathRegion \in Regions
    /\ body \in Bodies

ApiLocals ==
    /\ hpc = "bind"
    /\ reqWr = ZeroReq
    /\ engineCalls = << >>
    /\ engineResult = << >>
    /\ responses = << >>

\* lines 107-117
Bind ==
    /\ hpc = "bind"
    /\ LET b == BindJSON(body)
       IN IF b.err # Nil
          THEN /\ responses' = Append(responses, OnBindError(b.err).response)
               /\ hpc' = IF OnBindError(b.err).returns THEN "done" ELSE "engine"
               /\ UNCHANGED reqWr
          ELSE /\ reqWr' = b.req
               /\ hpc' = "engine"
               /\ UNCHANGED responses
    /\ UNCHANGED << provider, pathRegion, body, engineCalls, engineResult >>
    /\ UNCHANGED << regVars, engVars >>

\* line 119: the engine is called
CallEngine ==
    /\ hpc = "engine"
    /\ engineCalls' = Append(engineCalls,
                             [provider |-> provider, region |-> pathRegion, req |-> reqWr])
    /\ hpc' = "engineWait"
    /\ UNCHANGED << provider, pathRegion, body, reqWr, engineResult, responses >>
    /\ UNCHANGED << regVars, engVars >>

\* lines 119-123: the engine returns and the answer is written
EngineReturns ==
    /\ hpc = "engineWait"
    /\ \E answer \in EngineAnswers(provider) :
        /\ engineResult' = Append(engineResult, answer)
        /\ responses' = Append(responses, EngineResponse(answer))
    /\ hpc' = "done"
    /\ UNCHANGED << provider, pathRegion, body, reqWr, engineCalls >>
    /\ UNCHANGED << regVars, engVars >>

NextApi ==
    \/ Bind
    \/ CallEngine
    \/ EngineReturns

\* ------------------------------------------- Engine.RecommendCluster (spec 4.2, 4.3)
\* The engine the handler calls at routes.go:119.  Its code is not among the
\* repository's files at hand; it is modelled from sections 3, 4.2 and 4.3 of the
\* specification.
\* The diversification constant K of step 2.
K == 2

\* The catalog the engine reads: identifier, vCPU, memory, on-demand price and the
\* spot price when it is resolved.
EngineCatalog ==
    {[id |-> "A", vcpu |-> 4, mem |-> 1, onDemandPrice |-> 4, spotResolved |-> TRUE,
      spotPrice |-> 2],
     [id |-> "B", vcpu |-> 1, mem |-> 4, onDemandPrice |-> 3, spotResolved |-> TRUE,
      spotPrice |-> 1],
     [id |-> "C", vcpu |-> 2, mem |-> 2, onDemandPrice |-> 2, spotResolved |-> FALSE,
      spotPrice |-> 0]}

TypeIds == {t.id : t \in EngineCatalog}

\* The stable order of the node pools of a response.
TypeOrder == <<"A", "B", "C">>

TypeOf(id) == CHOOSE t \in EngineCatalog : t.id = id

TypeRank(id) == CHOOSE i \in DOMAIN TypeOrder : TypeOrder[i] = id

\* The on-demand ratios, in percent.
Ratios == {0, 50, 100}

ErrInfeasible == "Infeasible"

\* The requests: min <= max, the ratio within [0, 100] percent.
Requests ==
    {r \in [targetVCPU : 1..MaxTargetVCPU, targetMemory : 0..MaxTargetMemory,
            minNodes : 1..MaxNodes, maxNodes : 1..MaxNodes, onDemandRatio : Ratios,
            excluded : SUBSET TypeIds] :
        r.minNodes <= r.maxNodes}

CeilDiv(a, b) == (a + b - 1) \div b

RECURSIVE SumOver(_, _)
SumOver(S, f) ==
    IF S = {} THEN 0
    ELSE LET x == CHOOSE y \in S : TRUE IN f[x] + SumOver(S \ {x}, f)

\* 4.2: the eligible instance types of a request.
Eligible(req) == {t.id : t \in {u \in EngineCatalog : u.id \notin req.excluded /\ u.vcpu > 0}}

\* Step 1: the count of type id that covers the vCPU target, raised to the count
\* that covers the memory target.
SizingCount(req, id) ==
    LET t == TypeOf(id)
        byCpu == CeilDiv(req.targetVCPU, t.vcpu)
        byMem == CeilDiv(req.targetMemory, t.mem)
    IN IF byCpu * t.mem >= req.targetMemory THEN byCpu ELSE byMem

SizingPass(req, cands) == {id \in cands : SizingCount(req, id) <= req.maxNodes}

\* Step 2: spot price where the type has one, else on-demand.
EffectivePrice(id) ==
    IF TypeOf(id).spotResolved THEN TypeOf(id).spotPrice ELSE TypeOf(id).onDemandPrice

\* Type s ranks before type t: cheaper, or as cheap with the lower node count.
RanksBefore(req, s, t) ==
    \/ EffectivePrice(s) < EffectivePrice(t)
    \/ /\ EffectivePrice(s) = EffectivePrice(t)
       /\ SizingCount(req, s) < SizingCount(req, t)

\* The working sets step 2 may select: the K cheapest distinct types, all of them
\* when fewer than K survive.
WorkingSets(req, surv) ==
    {W \in SUBSET surv :
        /\ Cardinality(W) = (IF Cardinality(surv) < K THEN Cardinality(surv) ELSE K)
        /\ \A s \in surv \ W : \A t \in W : ~RanksBefore(req, s, t)}

\* Step 3: the allocations the rounding may end in: the counts are within
\* [min, max], they meet the vCPU target, a cheaper type has no smaller share.
Allocations(req, W) ==
    {c \in [W -> 0..req.maxNodes] :
        /\ SumOver(W, c) >= req.minNodes
        /\ SumOver(W, c) <= req.maxNodes
        /\ SumOver(W, [id \in W |-> c[id] * TypeOf(id).vcpu]) >= req.targetVCPU
        /\ \A s \in W : \A t \in W :
              EffectivePrice(s) < EffectivePrice(t) => c[s] >= c[t]}

\* Step 4: the price penalty of running a node of the type on-demand.
Penalty(id) == TypeOf(id).onDemandPrice - TypeOf(id).spotPrice

\* The types with a spot price, by price penalty ascending.
RECURSIVE ByPenalty(_)
ByPenalty(S) ==
    IF S = {} THEN << >>
    ELSE LET least == CHOOSE s \in S : \A t \in S :
                          \/ Penalty(s) < Penalty(t)
                          \/ Penalty(s) = Penalty(t) /\ TypeRank(s) <= TypeRank(t)
         IN << least >> \o ByPenalty(S \ {least})

\* The nodes of a type converted to on-demand when acc on-demand vCPU are covered.
Converted(req, id, count, acc) ==
    LET fits == {u \in 0..count :
                    (acc + u * TypeOf(id).vcpu) * 100 >= req.onDemandRatio * req.targetVCPU}
    IN IF fits = {} THEN count
       ELSE CHOOSE u \in fits : \A v \in fits : u <= v

RECURSIVE SplitWalk(_, _, _, _)
SplitWalk(req, c, order, acc) ==
    IF order = << >> THEN [id \in {} |-> 0]
    ELSE LET id == Head(order)
             u == Converted(req, id, c[id], acc)
             rest == SplitWalk(req, c, Tail(order), acc + u * TypeOf(id).vcpu)
         IN [t \in DOMAIN rest \cup {id} |-> IF t = id THEN u ELSE rest[t]]

\* The on-demand node count per type: all nodes of a type without a spot price,
\* and of the others the nodes the walk converts.
OnDemandSplit(req, c) ==
    LET unpriced == {id \in DOMAIN c : ~TypeOf(id).spotResolved}
        priced == DOMAIN c \ unpriced
        base == SumOver(unpriced, [id \in unpriced |-> c[id] * TypeOf(id).vcpu])
        walk == SplitWalk(req, c, ByPenalty(priced), base)
    IN [id \in DOMAIN c |-> IF id \in unpriced THEN c[id] ELSE walk[id]]

\* Step 5: one pool per type and tier with a non-zero count.
ThePool(id, tier, count) ==
    LET price == IF tier = "on-demand" THEN TypeOf(id).onDemandPrice
                 ELSE TypeOf(id).spotPrice
    IN [type |-> id, tier |-> tier, count |-> count, unitPrice |-> price,
        subtotal |-> count * price]

RECURSIVE NodePools(_, _, _)
NodePools(c, od, order) ==
    IF order = << >> THEN << >>
    ELSE LET id == Head(order)
             here == IF id \notin DOMAIN c THEN << >>
                     ELSE (IF od[id] > 0 THEN << ThePool(id, "on-demand", od[id]) >>
                           ELSE << >>)
                          \o (IF c[id] - od[id] > 0
                              THEN << ThePool(id, "spot", c[id] - od[id]) >>
                              ELSE << >>)
         IN here \o NodePools(c, od, Tail(order))

RECURSIVE SumPools(_, _)
SumPools(ps, f) == IF ps = << >> THEN 0 ELSE f[Head(ps)] + SumPools(Tail(ps), f)

AchievedVCPU(ps) == SumPools(ps, [p \in Range(ps) |-> p.count * TypeOf(p.type).vcpu])
AchievedMemory(ps) == SumPools(ps, [p \in Range(ps) |-> p.count * TypeOf(p.type).mem])
TotalPrice(ps) == SumPools(ps, [p \in Range(ps) |-> p.subtotal])

NoResponse == [nodePools |-> << >>, totalPrice |-> 0, vcpu |-> 0, memory |-> 0]

\* ResultAssembly, were the memory sum not compared with the target.
ResultAssemblyCpuOnly(req, ps) ==
    IF AchievedVCPU(ps) >= req.targetVCPU
    THEN [err |-> Nil,
          response |-> [nodePools |-> ps, totalPrice |-> TotalPrice(ps),
                        vcpu |-> AchievedVCPU(ps), memory |-> AchievedMemory(ps)]]
    ELSE [err |-> ErrInfeasible, response |-> NoResponse]

\* The response, or Infeasible when the sums do not reach the targets.
ResultAssembly(req, ps) ==
    IF AchievedVCPU(ps) >= req.targetVCPU /\ AchievedMemory(ps) >= req.targetMemory
    THEN [err |-> Nil,
          response |-> [nodePools |-> ps, totalPrice |-> TotalPrice(ps),
                        vcpu |-> AchievedVCPU(ps), memory |-> AchievedMemory(ps)]]
    ELSE [err |-> ErrInfeasible, response |-> NoResponse]

EngArguments ==
    /\ engReq \in Requests
    /\ epc = "select"

EngLocals ==
    /\ candidates = {}
    /\ survivors = {}
    /\ workingSet = {}
    /\ allocation = [id \in {} |-> 0]
    /\ onDemand = [id \in {} |-> 0]
    /\ engResponse = NoResponse
    /\ engErr = Nil

Infeasible ==
    /\ epc' = "done"
    /\ engErr' = ErrInfeasible
    /\ engResponse' = NoResponse

\* 4.2: the candidates of the request
SelectCandidates ==
    /\ epc = "select"
    /\ candidates' = Eligible(engReq)
    /\ IF candidates' = {}
       THEN Infeasible
       ELSE epc' = "sizing" /\ UNCHANGED << engResponse, engErr >>
    /\ UNCHANGED << engReq, survivors, workingSet, allocation, onDemand >>
    /\ UNCHANGED << regVars, apiVars >>

\* 4.3 step 1
Sizing ==
    /\ epc = "sizing"
    /\ survivors' = SizingPass(engReq, candidates)
    /\ IF survivors' = {}
       THEN Infeasible
       ELSE epc' = "diversify" /\ UNCHANGED << engResponse, engErr >>
    /\ UNCHANGED << engReq, candidates, workingSet, allocation, onDemand >>
    /\ UNCHANGED << regVars, apiVars >>

\* 4.3 step 2
Diversify ==
    /\ epc = "diversify"
    /\ workingSet' \in WorkingSets(engReq, survivors)
    /\ epc' = "allocate"
    /\ UNCHANGED << engReq, candidates, survivors, allocation, onDemand, engResponse,
                    engErr >>
    /\ UNCHANGED << regVars, apiVars >>

\* 4.3 step 3
Allocate ==
    /\ epc = "allocate"
    /\ IF Allocations(engReq, workingSet) = {}
       THEN Infeasible /\ UNCHANGED allocation
       ELSE /\ allocation' \in Allocations(engReq, workingSet)
            /\ epc' = "split"
            /\ UNCHANGED << engResponse, engErr >>
    /\ UNCHANGED << engReq, candidates, survivors, workingSet, onDemand >>
    /\ UNCHANGED << regVars, apiVars >>

\* 4.3 step 4
Split ==
    /\ epc = "split"
    /\ onDemand' = OnDemandSplit(engReq, allocation)
    /\ epc' = "assemble"
    /\ UNCHANGED << engReq, candidates, survivors, workingSet, allocation, engResponse,
                    engErr >>
    /\ UNCHANGED << regVars, apiVars >>

\* 4.3 step 5
Assemble ==
    /\ epc = "assemble"
    /\ LET r == ResultAssembly(engReq, NodePools(allocation, onDemand, TypeOrder))
       IN engErr' = r.err /\ engResponse' = r.response
    /\ epc' = "done"
    /\ UNCHANGED << engReq, candidates, survivors, workingSet, allocation, onDemand >>
    /\ UNCHANGED << regVars, apiVars >>

NextEngine ==
    \/ SelectCandidates
    \/ Sizing
    \/ Diversify
    \/ Allocate
    \/ Split
    \/ Assemble

\* ------------------------------------------------------ the specifications
vars == << regVars, apiVars, engVars >>

\* A registry request that no handler run accompanies, and the reverse.
ApiIdle ==
    /\ provider = "ec2" /\ pathRegion = "r1" /\ body = ""
    /\ hpc = "idle" /\ reqWr = ZeroReq /\ engineCalls = << >> /\ engineResult = << >>
    /\ responses = << >>

EngIdle ==
    /\ engReq = [targetVCPU |-> 1, targetMemory |-> 0, minNodes |-> 1, maxNodes |-> 1,
                 onDemandRatio |-> 0, excluded |-> {}]
    /\ epc = "idle"
    /\ EngLocals

RegIdle ==
    /\ region = "r1" /\ reqZones = << >> /\ cpuUnits = << >> /\ prometheus = FALSE
    /\ RegLocals

Init == RegArguments /\ RegLocals /\ ApiIdle /\ EngIdle

\* One call of findVmsWithCpuUnits.
Spec == Init /\ [][Next]_vars

NextCancel ==
    \/ Next
    \/ CancelRequest

\* One call of findVmsWithCpuUnits that its caller may give up.
SpecCancel == Init /\ [][NextCancel]_vars

InitApi == ApiArguments /\ ApiLocals /\ RegIdle /\ EngIdle

\* One request served by recommendClusterSetup.
SpecApi == InitApi /\ [][NextApi]_vars

InitEngine == EngArguments /\ EngLocals /\ RegIdle /\ ApiIdle

\* One call of Engine.RecommendCluster.
SpecEngine == InitEngine /\ [][NextEngine]_vars

\* ------------------------------------------------------------ the claims
CallsOf(op) == {i \in DOMAIN calls : calls[i].op = op}

\* The AvgPrice a VM is built with.
Unresolved == Rat(99, 1)

\* A query answer that is an error, or the empty vector (whose string is empty).
UnusableAnswer(a) == a.err # Nil \/ Len(a.vec) = 0

\* The direct API was called.
DirectCalled == CallsOf("DescribeSpotPriceHistory") # {}

\* The VM the registry builds from a catalog entry, its spot price unresolved.
CatalogVms == {NewVirtualMachine(e) : e \in Range(Ec2Catalog(region))}

\* C1: when a Prometheus query of the attempt answered with an error or an empty
\* vector and the request succeeds, the direct API was called with the whole list
\* of instance types and every VM's AvgPrice is the direct API's average for its
\* type, or the initial value when the direct API has none; no price of the
\* Prometheus attempt is in the result.
C1_NoPartialMerge ==
    (/\ pc = "done"
     /\ retErr = Nil
     /\ \E i \in DOMAIN queryAnswers : UnusableAnswer(queryAnswers[i]))
    => /\ \E i \in CallsOf("DescribeSpotPriceHistory") :
            calls[i].instanceTypes = [j \in DOMAIN vms |-> vms[j].Type]
       /\ Len(retVms) = Len(vms)
       /\ LET direct == ZoneAvgSpotPrices(history, zones)
          IN \A j \in DOMAIN retVms :
                retVms[j].AvgPrice =
                    IF retVms[j].Type \in DOMAIN direct
                    THEN direct[retVms[j].Type]
                    ELSE Unresolved

\* A request whose first query gave a price, whose second gave nothing, and which
\* returns a price of the direct API.
C1_Witness ==
    /\ pc = "done"
    /\ retErr = Nil
    /\ Len(queryAnswers) = 2
    /\ UnusableAnswer(queryAnswers[2])
    /\ DOMAIN promPrices # {}
    /\ \E j \in DOMAIN retVms : retVms[j].AvgPrice # Unresolved

\* C2: after a successful direct API call, a requested instance type has an
\* average only if the history holds a sample of it from every requested zone.
C2_AveragedOnlyWithEveryZone ==
    (pc = "done" /\ DirectCalled /\ directErr = Nil)
    => \A t \in DOMAIN avgSpotPrices \cap Range(instanceTypes) :
         \A z \in Range(zones) :
            \E i \in DOMAIN history :
                history[i].InstanceType = t /\ history[i].AvailabilityZone = z

\* C3: a failed Prometheus attempt followed by a successful direct API call ends in
\* the VM list and a nil error, and whatever error a request with a failed
\* Prometheus attempt returns is the direct API's.
C3_PrometheusFailureNotSurfaced ==
    (pc = "done" /\ promErr # Nil)
    => /\ DirectCalled
       /\ directErr = Nil => (retErr = Nil /\ retVms = AssignPrices(vms, avgSpotPrices))
       /\ retErr # Nil => retErr = directErr

\* A failed attempt, a successful fallback and a VM list returned.
C3_Witness ==
    /\ pc = "done"
    /\ promErr # Nil
    /\ directErr = Nil
    /\ retErr = Nil
    /\ Len(retVms) > 0

\* C4: in a request without zones, every Prometheus query and every direct API
\* call comes after the call of DescribeAvailabilityZones; when that call fails the
\* request returns its error and no VM and neither pricing source is called.
C4_DiscoveryBeforePricing ==
    /\ Len(reqZones) = 0 =>
         \A i \in CallsOf("Query") \cup CallsOf("DescribeSpotPriceHistory") :
            \E j \in CallsOf("DescribeAvailabilityZones") : j < i
    /\ azErr # Nil =>
         /\ pc = "done"
         /\ retErr = azErr
         /\ retVms = << >>
         /\ CallsOf("Query") \cup CallsOf("DescribeSpotPriceHistory") = {}

\* A request without zones whose discovery failed.
C4_Witness ==
    /\ Len(reqZones) = 0
    /\ azErr # Nil
    /\ pc = "done"
    /\ Len(vms) > 0

\* C5 as stated: with the Prometheus attempt failed or not configured, a type for
\* which the direct API fails or has no average is returned as the catalog gave it,
\* its AvgPrice the initial value.
C5_Original ==
    (pc = "done" /\ DirectCalled /\ (promErr # Nil \/ ~prometheus))
    => \A i \in DOMAIN vms :
         (directErr # Nil \/ vms[i].Type \notin DOMAIN avgSpotPrices)
         => /\ Len(retVms) = Len(vms)
            /\ retVms[i].Type = vms[i].Type
            /\ retVms[i] \in CatalogVms

\* C5 amended: with the Prometheus attempt failed or not configured, a successful
\* direct API call returns every type, and a type it has no average for as the
\* catalog gave it, its AvgPrice the initial value; a failed direct API call
\* returns its error and no VM.
C5_UnresolvedKeptUnlessDirectFails ==
    (pc = "done" /\ DirectCalled /\ (promErr # Nil \/ ~prometheus))
    => IF directErr # Nil
       THEN retErr = directErr /\ retVms = << >>
       ELSE /\ retErr = Nil
            /\ Len(retVms) = Len(vms)
            /\ LET direct == ZoneAvgSpotPrices(history, zones)
               IN \A i \in DOMAIN vms :
                    vms[i].Type \notin DOMAIN direct
                    => /\ retVms[i].Type = vms[i].Type
                       /\ retVms[i].AvgPrice = Unresolved
                       /\ retVms[i] \in CatalogVms

\* Both sources failed for a type, and it is returned without a spot price.
C5_Witness ==
    /\ pc = "done"
    /\ promErr # Nil
    /\ DirectCalled
    /\ directErr = Nil
    /\ \E i \in DOMAIN retVms :
         /\ retVms[i].Type \notin DOMAIN avgSpotPrices
         /\ retVms[i].AvgPrice = Unresolved
    /\ \E i \in DOMAIN retVms : retVms[i].AvgPrice # Unresolved

\* C6: a served request has exactly one response: 400 and no engine call when the
\* body does not bind, else one engine call and 500 or 200 as the engine answered
\* with an error or a response, the 200 carrying that response; no state holds
\* more than one response, or an engine call for a body that does not bind.
C6_OneResponsePerRequest ==
    /\ Len(responses) <= 1
    /\ BindJSON(body).err # Nil => engineCalls = << >>
    /\ hpc = "done" =>
         /\ Len(responses) = 1
         /\ IF BindJSON(body).err # Nil
            THEN responses[1].status = 400
            ELSE /\ Len(engineCalls) = 1
                 /\ engineCalls[1].req = BindJSON(body).req
                 /\ engineCalls[1].provider = provider
                 /\ engineCalls[1].region = pathRegion
                 /\ Len(engineResult) = 1
                 /\ IF engineResult[1].err # Nil
                    THEN responses[1].status = 500
                    ELSE /\ responses[1].status = 200
                         /\ responses[1].body = engineResult[1].response

\* A request whose body did not bind, answered.
C6_Witness ==
    /\ hpc = "done"
    /\ BindJSON(body).err # Nil
    /\ Len(responses) = 1

\* C7: while a Prometheus query is in flight and instance types are left to query,
\* the next query can be sent without waiting for the answer, and every query in
\* flight carries a deadline.
C7_QueriesConcurrentWithTimeout ==
    (Len(inflight) > 0 /\ promIdx < Len(instanceTypes))
    => /\ ENABLED IssueQuery
       /\ \A i \in DOMAIN inflight : inflight[i].ctx.deadline # Nil

\* C8: a request given up while a query was in flight, or one of whose queries
\* timed out, ends in a timeout error.
C8_CancelFailsWithTimeout ==
    (/\ pc = "done"
     /\ \/ cancelled
        \/ \E i \in DOMAIN queryAnswers : queryAnswers[i].err = "context deadline exceeded")
    => retErr \in {"context deadline exceeded", "context canceled"}

\* C9: a request for some cpu units in a region without offerings, none of whose
\* calls to a collaborator failed, ends in an EmptyCatalog error, not in an empty
\* VM list and a nil error.
C9_EmptyCatalogIsAnError ==
    (/\ pc = "done"
     /\ Len(cpuUnits) > 0
     /\ Ec2Catalog(region) = << >>
     /\ catalogErr = Nil /\ azErr = Nil /\ promErr = Nil /\ directErr = Nil)
    => /\ retErr = "EmptyCatalog"
       /\ ~(retErr = Nil /\ retVms = << >>)

\* C10: when a catalog lookup fails the request is over, it returns that error and
\* no VM, the failed lookup is the last call, each cpu unit up to it was looked up
\* once, and nothing but the catalog was called.
C10_CatalogErrorIsFatal ==
    catalogErr # Nil
    => /\ pc = "done"
       /\ retErr = catalogErr
       /\ retVms = << >>
       /\ Len(calls) <= Len(cpuUnits)
       /\ \A i \in DOMAIN calls : calls[i].op = "GetVmsWithCpu" /\ calls[i].idx = i

\* A lookup failed after another had given a VM.
C10_Witness ==
    /\ catalogErr # Nil
    /\ pc = "done"
    /\ Len(calls) = 2
    /\ Len(vms) > 0

\* The capacity of the node pools of a response, summed from the catalog.
PoolsVCPU(ps) == SumOver(DOMAIN ps, [i \in DOMAIN ps |-> ps[i].count * TypeOf(ps[i].type).vcpu])

PoolsMemory(ps) == SumOver(DOMAIN ps, [i \in DOMAIN ps |-> ps[i].count * TypeOf(ps[i].type).mem])

\* C11: when the engine returns a response and no failure, the vCPU of its node
\* pools sum to at least the target vCPU and their memory to at least the target
\* memory, and the response reports these sums.
C11_CapacitySufficient ==
    (epc = "done" /\ engErr = Nil)
    => /\ PoolsVCPU(engResponse.nodePools) >= engReq.targetVCPU
       /\ PoolsMemory(engResponse.nodePools) >= engReq.targetMemory
       /\ engResponse.vcpu = PoolsVCPU(engResponse.nodePools)
       /\ engResponse.memory = PoolsMemory(engResponse.nodePools)
       /\ \A i \in DOMAIN engResponse.nodePools : engResponse.nodePools[i].count > 0

\* A response of two instance types for a request with a memory target.
C11_Witness ==
    /\ epc = "done"
    /\ engErr = Nil
    /\ engReq.targetMemory > 0
    /\ \E i \in DOMAIN engResponse.nodePools : \E j \in DOMAIN engResponse.nodePools :
          engResponse.nodePools[i].type # engResponse.nodePools[j].type

\* A query answer the attempt cannot use: an error, the empty vector, or a value
\* that is no number.
BadAnswer(a) == UnusableAnswer(a) \/ ~(\E i \in DOMAIN NumericStrings : NumericStrings[i] = a.vec[1])

\* The request got as far as resolving spot prices.
PricingReached == catalogErr = Nil /\ azErr = Nil /\ pc \in {"promLoop", "promWait", "direct", "done"}

\* C12: once a Prometheus query answered with an error, an empty vector or a value
\* that does not parse, that answer is the last of the attempt: as many queries
\* were sent as answers came, none is in flight and none can be sent, and the
\* attempt has returned an error and no price map.
C12_FailFast ==
    \A i \in DOMAIN queryAnswers :
        BadAnswer(queryAnswers[i])
        => /\ i = Len(queryAnswers)
           /\ Cardinality(CallsOf("Query")) = i
           /\ inflight = << >>
           /\ ~ENABLED IssueQuery
           /\ promErr # Nil
           /\ ~pricesParsed
           /\ pc = "direct" => avgSpotPrices = EmptyMap

\* The first of two instance types got an answer that cannot be used, and the
\* request is over.
C12_Witness ==
    /\ pc = "done"
    /\ Len(instanceTypes) = 2
    /\ Len(queryAnswers) = 1
    /\ BadAnswer(queryAnswers[1])

\* C13: the direct API is called at most once and each call carries the whole list
\* of instance types; a request that got as far as resolving prices has called it
\* exactly if no Prometheus is configured or the attempt failed; after an attempt
\* that succeeded it was not called and each VM has the price the query of its
\* type answered with.
C13_DirectOnlyAsFallback ==
    /\ Cardinality(CallsOf("DescribeSpotPriceHistory")) <= 1
    /\ \A i \in CallsOf("DescribeSpotPriceHistory") :
          /\ calls[i].instanceTypes = [j \in DOMAIN vms |-> vms[j].Type]
          /\ ~prometheus \/ promErr # Nil
    /\ (pc = "done" /\ PricingReached)
       => /\ DirectCalled <=> (~prometheus \/ promErr # Nil)
          /\ (prometheus /\ promErr = Nil)
             => /\ retErr = Nil
                /\ Len(retVms) = Len(vms)
                /\ \A j \in DOMAIN retVms :
                      \E k \in DOMAIN queryAnswers :
                         /\ instanceTypes[k] = retVms[j].Type
                         /\ queryAnswers[k].err = Nil
                         /\ retVms[j].AvgPrice = Rat(ParseFloat(queryAnswers[k].vec[1]).val, 1)

\* A request with zones whose Prometheus attempt succeeded for its types.
C13_Witness ==
    /\ pc = "done"
    /\ prometheus
    /\ promErr = Nil
    /\ Len(reqZones) > 0
    /\ Len(retVms) > 0
    /\ ~DirectCalled

\* The names of the zones of a DescribeAvailabilityZones answer that are available.
AvailableOf(list) ==
    LET sel == SelectSeq(list, LAMBDA z : z.State = "available")
    IN [i \in DOMAIN sel |-> sel[i].ZoneName]

\* The zone list the request has to price with.
ZonesToUse == IF Len(reqZones) = 0 THEN AvailableOf(azs) ELSE reqZones

\* C14: in a request without zones the zone list of the price resolution is the
\* available zones of the DescribeAvailabilityZones answer, none of them in another
\* state; in a request with zones it is the request's list and
\* DescribeAvailabilityZones is not called.  Every Prometheus query carries that
\* list and the direct API's averages are taken over it.
C14_ZonesUsed ==
    /\ PricingReached
       => /\ zones = ZonesToUse
          /\ Len(reqZones) = 0
             => \A z \in Range(zones) : \A i \in DOMAIN azs :
                   azs[i].ZoneName = z => azs[i].State = "available"
    /\ \A i \in CallsOf("Query") : calls[i].zones = ZonesToUse
    /\ (pc = "done" /\ DirectCalled /\ directErr = Nil)
       => avgSpotPrices = ZoneAvgSpotPrices(history, ZonesToUse)
    /\ Len(reqZones) > 0 => CallsOf("DescribeAvailabilityZones") = {}
    /\ (Len(reqZones) = 0 /\ PricingReached)
       => Cardinality(CallsOf("DescribeAvailabilityZones")) = 1

\* A request without zones in a region with an available and an impaired zone,
\* which both pricing sources were asked for.
C14_Witness ==
    /\ pc = "done"
    /\ Len(reqZones) = 0
    /\ \E i \in DOMAIN azs : azs[i].State # "available"
    /\ Len(zones) = 1
    /\ CallsOf("Query") # {}
    /\ DirectCalled
    /\ directErr = Nil
    /\ DOMAIN avgSpotPrices # {}

\* The samples of type t the history holds for the zone z.
SamplesOf(t, z) ==
    {i \in DOMAIN history : history[i].InstanceType = t /\ history[i].AvailabilityZone = z}

\* C15: after a successful direct API call, the price of a kept instance type is
\* the sum of its samples from the requested zones divided by their number, and it
\* is the mean of one sample per requested zone.
C15_AverageOverRequestedZones ==
    (pc = "done" /\ DirectCalled /\ directErr = Nil)
    => \A t \in DOMAIN avgSpotPrices \cap Range(instanceTypes) :
          LET mine == {i \in DOMAIN history :
                          /\ history[i].InstanceType = t
                          /\ history[i].AvailabilityZone \in Range(zones)}
              price == [i \in DOMAIN history |-> ParseFloat(history[i].SpotPrice).val]
              n == SumOver(mine, [i \in mine |-> ZoneHits(zones, history[i].AvailabilityZone)])
          IN /\ n > 0
             /\ avgSpotPrices[t]
                  = Rat(SumOver(mine, [i \in mine |->
                           price[i] * ZoneHits(zones, history[i].AvailabilityZone)]), n)
             /\ \E pick \in [DOMAIN zones -> DOMAIN history] :
                   /\ \A k \in DOMAIN zones : pick[k] \in SamplesOf(t, zones[k])
                   /\ avgSpotPrices[t]
                        = Rat(SumOver(DOMAIN zones, [k \in DOMAIN zones |-> price[pick[k]]]),
                              Len(zones))

\* What the catalog answers for the cpu units, lookup after lookup.
RECURSIVE CatalogAnswer(_, _)
CatalogAnswer(r, cpus) ==
    IF cpus = << >> THEN << >>
    ELSE GetVmsWithCpu(r, Head(cpus)) \o CatalogAnswer(r, Tail(cpus))

\* C16: a successful request returns one VM per entry the catalog answered with
\* for the cpu units, in that order, with the entry's Type, OnDemandPrice, Cpus, Mem
\* and Gpus, whatever the pricing sources gave.
C16_OnlyAvgPriceChanges ==
    (pc = "done" /\ retErr = Nil)
    => LET cat == CatalogAnswer(region, cpuUnits)
       IN /\ Len(retVms) = Len(cat)
          /\ \A j \in DOMAIN retVms :
                /\ retVms[j].Type = cat[j].Type
                /\ retVms[j].OnDemandPrice = cat[j].OnDemandPrice
                /\ retVms[j].Cpus = cat[j].Cpus
                /\ retVms[j].Mem = cat[j].Mem
                /\ retVms[j].Gpus = cat[j].Gpus

\* Two VMs returned, one with a spot price and one without.
C16_Witness ==
    /\ pc = "done"
    /\ retErr = Nil
    /\ Len(retVms) = 2
    /\ \E j \in DOMAIN retVms : retVms[j].AvgPrice = Unresolved
    /\ \E j \in DOMAIN retVms : retVms[j].AvgPrice # Unresolved

\* C17: after a Prometheus attempt that returned no error, the price map has an
\* entry for each requested instance type and for no other, and each returned VM
\* has the price of its type's entry, not the initial value.
C17_SuccessfulAttemptComplete ==
    (pc = "done" /\ PricingReached /\ prometheus /\ promErr = Nil)
    => /\ pricesParsed
       /\ DOMAIN promPrices = Range(instanceTypes)
       /\ DOMAIN avgSpotPrices = Range(instanceTypes)
       /\ Len(retVms) = Len(vms)
       /\ \A j \in DOMAIN retVms :
             /\ retVms[j].Type \in DOMAIN promPrices
             /\ retVms[j].AvgPrice = promPrices[retVms[j].Type]
             /\ retVms[j].AvgPrice # Unresolved

\* Two instance types, each priced by its query.
C17_Witness ==
    /\ pc = "done"
    /\ prometheus
    /\ promErr = Nil
    /\ Len(queryAnswers) = 2
    /\ Cardinality(Range(instanceTypes)) = 2
    /\ \A j \in DOMAIN retVms : retVms[j].AvgPrice # Unresolved

====
